---- MODULE Spec2Model ----
(***************************************************************************)
(* Model of Calculator (src/src/main.cpp): evaluate = tokenize, then       *)
(* shuntingYard, then solveRPN.  One evaluate call is one behaviour: Init  *)
(* draws the expression text, every loop iteration of the three stages is  *)
(* one step.                                                               *)
(*                                                                         *)
(* Characters are one-character strings, texts are sequences of them.      *)
(* A double is modelled by an exact rational n/d (d > 0, lowest terms)     *)
(* while |n| and d stay within ExactLimit; every other double (an          *)
(* irrational function value, a result beyond ExactLimit, inf, nan) is an  *)
(* opaque term that records how it was computed.  The test b == 0 on an    *)
(* opaque term may go either way.                                          *)
(***************************************************************************)
EXTENDS Integers, Sequences, FiniteSets, TLC

VARIABLES expr, pc, i, tokens, output, operators, ti, rpn, ri, stack, result, err

vars == <<expr, pc, i, tokens, output, operators, ti, rpn, ri, stack, result, err>>

---------------------------------------------------------------------------
(* Bounds of the model *)

\* most lexemes concatenated into an expression text of Spec
MaxLexemes == 4
\* most characters of an arithmetic expression of SpecArith
MaxLen == 7
\* largest numerator or denominator kept as an exact rational
ExactLimit == 30000

---------------------------------------------------------------------------
(* Characters: std::isspace, std::isdigit, std::isalpha *)

isspace(c) == c \in {" ", "\t", "\n", "\f", "\r"}

isdigit(c) == c \in {"0", "1", "2", "3", "4", "5", "6", "7", "8", "9"}

isalpha(c) == c \in {"a", "b", "c", "d", "e", "f", "g", "h", "i", "j", "k", "l", "m",
                     "n", "o", "p", "q", "r", "s", "t", "u", "v", "w", "x", "y", "z",
                     "A", "B", "C", "D", "E", "F", "G", "H", "I", "J", "K", "L", "M",
                     "N", "O", "P", "Q", "R", "S", "T", "U", "V", "W", "X", "Y", "Z"}

DigitVal(c) == CASE c = "0" -> 0 [] c = "1" -> 1 [] c = "2" -> 2 [] c = "3" -> 3
                 [] c = "4" -> 4 [] c = "5" -> 5 [] c = "6" -> 6 [] c = "7" -> 7
                 [] c = "8" -> 8 [] c = "9" -> 9

---------------------------------------------------------------------------
(* double *)

Abs(x) == IF x < 0 THEN -x ELSE x

RECURSIVE GCD(_, _)
GCD(a, b) == IF b = 0 THEN a ELSE GCD(b, a % b)

\* an opaque double: the operation f applied to the doubles a
Opq(f, a) == [n |-> 0, d |-> 0, f |-> f, a |-> a]

\* whether n/d in lowest terms stays within ExactLimit (d # 0)
Fits(n, d) ==
    LET g == GCD(Abs(n), Abs(d))
    IN  Abs(n) \div g <= ExactLimit /\ Abs(d) \div g <= ExactLimit

\* the exact double n/d in lowest terms, d # 0
Rat(n, d) ==
    LET g == GCD(Abs(n), Abs(d))
        s == IF d < 0 THEN -1 ELSE 1
    IN  [n |-> (s * n) \div g, d |-> (s * d) \div g, f |-> "", a |-> <<>>]

\* the double n/d computed as f applied to a
Val(n, d, f, a) == IF Fits(n, d) THEN Rat(n, d) ELSE Opq(f, a)

IsExact(v) == v.d > 0

IsZero(v) == IsExact(v) /\ v.n = 0

\* the outcomes of the comparison v == 0
EqualsZero(v) == IF IsExact(v) THEN {v.n = 0} ELSE BOOLEAN

Add(a, b) == IF IsExact(a) /\ IsExact(b)
             THEN Val(a.n * b.d + b.n * a.d, a.d * b.d, "+", <<a, b>>)
             ELSE Opq("+", <<a, b>>)

Sub(a, b) == IF IsExact(a) /\ IsExact(b)
             THEN Val(a.n * b.d - b.n * a.d, a.d * b.d, "-", <<a, b>>)
             ELSE Opq("-", <<a, b>>)

Mul(a, b) == IF IsExact(a) /\ IsExact(b)
             THEN Val(a.n * b.n, a.d * b.d, "*", <<a, b>>)
             ELSE Opq("*", <<a, b>>)

\* a / b; a division by an exact zero gives inf or nan
Div(a, b) == IF IsExact(a) /\ IsExact(b) /\ b.n # 0
             THEN Val(a.n * b.d, a.d * b.n, "/", <<a, b>>)
             ELSE Opq("/", <<a, b>>)

Neg(a) == IF IsExact(a) THEN Rat(-a.n, a.d) ELSE Opq("neg", <<a>>)

\* acc * b^e for naturals b >= 2, or -1 when it exceeds ExactLimit
RECURSIVE PowFrom(_, _, _)
PowFrom(b, e, acc) ==
    IF e = 0 THEN acc
    ELSE IF acc > ExactLimit \div b THEN -1
    ELSE PowFrom(b, e - 1, acc * b)

\* b^e for naturals, or -1 when it exceeds ExactLimit
NatPow(b, e) ==
    IF e = 0 \/ b = 1 THEN 1
    ELSE IF b = 0 THEN 0
    ELSE PowFrom(b, e, 1)

\* std::pow(a, b): exact for an integer exponent while the result stays
\* within ExactLimit
Pow(a, b) ==
    IF IsExact(a) /\ IsExact(b) /\ b.d = 1 /\ Abs(b.n) <= ExactLimit
    THEN LET e == Abs(b.n)
             pn == NatPow(Abs(a.n), e)
             pd == NatPow(a.d, e)
             sg == IF a.n < 0 /\ e % 2 = 1 THEN -1 ELSE 1
         IN  IF pn < 0 \/ pd < 0 THEN Opq("^", <<a, b>>)
             ELSE IF b.n >= 0 THEN Rat(sg * pn, pd)
             ELSE IF pn = 0 THEN Opq("^", <<a, b>>)
             ELSE Rat(sg * pd, pn)
    ELSE Opq("^", <<a, b>>)

\* the least r >= r0 with r * r >= n when its square is n, or -1
RECURSIVE RootFrom(_, _)
RootFrom(n, r0) == IF r0 * r0 >= n THEN (IF r0 * r0 = n THEN r0 ELSE -1)
                   ELSE RootFrom(n, r0 + 1)

ExactRoot(n) == RootFrom(n, 0)

Sin(a) == IF IsZero(a) THEN Rat(0, 1) ELSE Opq("sin", <<a>>)

Cos(a) == IF IsZero(a) THEN Rat(1, 1) ELSE Opq("cos", <<a>>)

Tan(a) == IF IsZero(a) THEN Rat(0, 1) ELSE Opq("tan", <<a>>)

Sqrt(a) ==
    IF IsExact(a) /\ a.n >= 0 /\ ExactRoot(a.n) >= 0 /\ ExactRoot(a.d) >= 0
    THEN Rat(ExactRoot(a.n), ExactRoot(a.d))
    ELSE Opq("sqrt", <<a>>)

\* std::stod on a run of digits and '.': the longest prefix of the form
\* digits [. digits] is converted; no digit in it is std::invalid_argument.
\* (std::out_of_range needs more digits than inputBuffer[256] holds.)
RECURSIVE DigitsEnd(_, _)
DigitsEnd(s, k) == IF k <= Len(s) /\ isdigit(s[k]) THEN DigitsEnd(s, k + 1) ELSE k

RECURSIVE DigitsValue(_, _, _)
DigitsValue(s, k, acc) ==
    IF k > Len(s) THEN acc
    ELSE IF acc < 0 \/ acc > ExactLimit THEN -1
    ELSE DigitsValue(s, k + 1, 10 * acc + DigitVal(s[k]))

StodParts(s) ==
    LET e1 == DigitsEnd(s, 1)
        hasDot == e1 <= Len(s) /\ s[e1] = "."
        e2 == IF hasDot THEN DigitsEnd(s, e1 + 1) ELSE e1
    IN  [int |-> SubSeq(s, 1, e1 - 1),
         frac |-> IF hasDot THEN SubSeq(s, e1 + 1, e2 - 1) ELSE <<>>]

StodThrows(s) == LET p == StodParts(s) IN p.int = <<>> /\ p.frac = <<>>

stod(s) ==
    LET p == StodParts(s)
        num == DigitsValue(p.int \o p.frac, 1, 0)
        den == NatPow(10, Len(p.frac))
        digits == [k \in 1..Len(p.int \o p.frac) |-> Rat(DigitVal((p.int \o p.frac)[k]), 1)]
    IN  IF num < 0 \/ den < 0 \/ ~Fits(num, den)
        THEN Opq("lit", Append(digits, Rat(Len(p.frac), 1)))
        ELSE Rat(num, den)

---------------------------------------------------------------------------
(* Token *)

Token(type, value) == [type |-> type, value |-> value]

\* what() of the exception thrown, arg the text appended to it
Error(what, arg) == [what |-> what, arg |-> arg]

NoError == Error("", <<>>)

Back(s) == s[Len(s)]

PopBack(s) == SubSeq(s, 1, Len(s) - 1)

---------------------------------------------------------------------------
(* Calculator::getPrecedence, Calculator::isRightAssociative *)

\* mutant: * / % ranked with + -
getPrecedence_Flat(op) ==
    IF op = <<"+">> \/ op = <<"-">> THEN 1
    ELSE IF op = <<"*">> \/ op = <<"/">> \/ op = <<"%">> THEN 1
    ELSE IF op = <<"^">> THEN 3
    ELSE 0

getPrecedence(op) ==
    IF op = <<"+">> \/ op = <<"-">> THEN 1
    ELSE IF op = <<"*">> \/ op = <<"/">> \/ op = <<"%">> THEN 2
    ELSE IF op = <<"^">> THEN 3
    ELSE 0

\* mutant: no operator is right-associative
isRightAssociative_Never(op) == FALSE

isRightAssociative(op) == op = <<"^">>

---------------------------------------------------------------------------
(* Calculator::tokenize *)

\* the first index from k on whose character is not a digit or '.'
RECURSIVE NumberEnd(_, _)
NumberEnd(s, k) ==
    IF k <= Len(s) /\ (isdigit(s[k]) \/ s[k] = ".") THEN NumberEnd(s, k + 1) ELSE k

\* the first index from k on whose character is not alphabetic
RECURSIVE AlphaEnd(_, _)
AlphaEnd(s, k) == IF k <= Len(s) /\ isalpha(s[k]) THEN AlphaEnd(s, k + 1) ELSE k

\* mutant: an Operator before the '-' is not looked at
IsUnaryMinus_NoOperator(toks) ==
    toks = <<>> \/ Back(toks).type = "LeftParen"

\* whether a '-' read after the tokens toks is the unary negation
IsUnaryMinus(toks) ==
    toks = <<>> \/ Back(toks).type = "LeftParen" \/ Back(toks).type = "Operator"

\* the token emitted for a character that is no space, digit, '.', letter
\* or parenthesis
OtherToken(c, toks) ==
    IF c = "-"
    THEN IF IsUnaryMinus(toks) THEN Token("Function", <<"_">>)
         ELSE Token("Operator", <<"-">>)
    ELSE Token("Operator", <<c>>)

\* one iteration of the for loop at index k (1-based): the tokens after it
\* and the index of the next iteration
TokenizeAt(s, k, toks) ==
    LET c == s[k] IN
    IF isspace(c) THEN [tokens |-> toks, next |-> k + 1]
    ELSE IF isdigit(c) \/ c = "."
    THEN LET e == NumberEnd(s, k)
         IN  [tokens |-> Append(toks, Token("Number", SubSeq(s, k, e - 1))), next |-> e]
    ELSE IF isalpha(c)
    THEN LET e == AlphaEnd(s, k)
         IN  [tokens |-> Append(toks, Token("Function", SubSeq(s, k, e - 1))), next |-> e]
    ELSE IF c = "(" THEN [tokens |-> Append(toks, Token("LeftParen", <<"(">>)), next |-> k + 1]
    ELSE IF c = ")" THEN [tokens |-> Append(toks, Token("RightParen", <<")">>)), next |-> k + 1]
    ELSE [tokens |-> Append(toks, OtherToken(c, toks)), next |-> k + 1]

RECURSIVE TokenizeFrom(_, _, _)
TokenizeFrom(s, k, toks) ==
    IF k > Len(s) THEN toks
    ELSE LET r == TokenizeAt(s, k, toks) IN TokenizeFrom(s, r.next, r.tokens)

tokenize(s) == TokenizeFrom(s, 1, <<>>)

---------------------------------------------------------------------------
(* Calculator::shuntingYard; the operator stack has its top at the end *)

\* the condition of the if inside the Operator case's while loop
PopsTop(token, top) ==
    \/ top.type = "Function"
    \/ (~isRightAssociative(token.value)
            /\ getPrecedence(token.value) <= getPrecedence(top.value))
    \/ (isRightAssociative(token.value)
            /\ getPrecedence(token.value) < getPrecedence(top.value))

\* the Operator case's while loop
RECURSIVE OperatorLoop(_, _, _)
OperatorLoop(token, out, ops) ==
    IF ops # <<>> /\ Back(ops).type # "LeftParen" /\ PopsTop(token, Back(ops))
    THEN OperatorLoop(token, Append(out, Back(ops)), PopBack(ops))
    ELSE [output |-> out, operators |-> ops]

\* the RightParen case's while loop
RECURSIVE ParenLoop(_, _)
ParenLoop(out, ops) ==
    IF ops # <<>> /\ Back(ops).type # "LeftParen"
    THEN ParenLoop(Append(out, Back(ops)), PopBack(ops))
    ELSE [output |-> out, operators |-> ops]

Yard(out, ops, e) == [output |-> out, operators |-> ops, err |-> e]

NumberCase(token, out, ops) == Yard(Append(out, token), ops, NoError)

OperatorCase(token, out, ops) ==
    LET r == OperatorLoop(token, out, ops)
    IN  Yard(r.output, Append(r.operators, token), NoError)

\* mutant: a Function is handled as an Operator is
FunctionCase_AsOperator(token, out, ops) == OperatorCase(token, out, ops)

FunctionCase(token, out, ops) == Yard(out, Append(ops, token), NoError)

LeftParenCase(token, out, ops) == Yard(out, Append(ops, token), NoError)

RightParenCase(token, out, ops) ==
    LET r == ParenLoop(out, ops) IN
    IF r.operators = <<>>
    THEN Yard(r.output, r.operators, Error("Mismatched parentheses", <<>>))
    ELSE LET rest == PopBack(r.operators) IN
         IF rest # <<>> /\ Back(rest).type = "Function"
         THEN Yard(Append(r.output, Back(rest)), PopBack(rest), NoError)
         ELSE Yard(r.output, rest, NoError)

\* one iteration of the for loop over the tokens
YardToken(token, out, ops) ==
    IF token.type = "Number" THEN NumberCase(token, out, ops)
    ELSE IF token.type = "Function" THEN FunctionCase(token, out, ops)
    ELSE IF token.type = "Operator" THEN OperatorCase(token, out, ops)
    ELSE IF token.type = "LeftParen" THEN LeftParenCase(token, out, ops)
    ELSE RightParenCase(token, out, ops)

\* mutant: a LeftParen left on the stack is flushed like the rest
RECURSIVE FinalFlush_NoCheck(_, _)
FinalFlush_NoCheck(out, ops) ==
    IF ops = <<>> THEN Yard(out, ops, NoError)
    ELSE FinalFlush_NoCheck(Append(out, Back(ops)), PopBack(ops))

\* the while loop after the for loop
RECURSIVE FinalFlush(_, _)
FinalFlush(out, ops) ==
    IF ops = <<>> THEN Yard(out, ops, NoError)
    ELSE IF Back(ops).type = "LeftParen"
    THEN Yard(out, ops, Error("Mismatched parentheses", <<>>))
    ELSE FinalFlush(Append(out, Back(ops)), PopBack(ops))

---------------------------------------------------------------------------
(* Calculator::solveRPN; the stack has its top at the end *)

Eval(st, e) == [stack |-> st, err |-> e]

\* mutant: the divisor is not tested
DivisionThrows_Never(eq) == FALSE

\* whether the division throws, eq the outcome of b == 0
DivisionThrows(eq) == eq

\* the Operator case after a and b are popped from st; eq is the outcome
\* of b == 0
ApplyOperator(op, a, b, eq, st) ==
    IF op = <<"+">> THEN Eval(Append(st, Add(a, b)), NoError)
    ELSE IF op = <<"-">> THEN Eval(Append(st, Sub(a, b)), NoError)
    ELSE IF op = <<"*">> THEN Eval(Append(st, Mul(a, b)), NoError)
    ELSE IF op = <<"/">>
    THEN IF DivisionThrows(eq) THEN Eval(st, Error("Division by zero", <<>>))
         ELSE Eval(Append(st, Div(a, b)), NoError)
    ELSE IF op = <<"^">> THEN Eval(Append(st, Pow(a, b)), NoError)
    ELSE Eval(st, NoError)

OperatorToken(token, st, eq) ==
    IF Len(st) < 2 THEN Eval(st, Error("Invalid expression", <<>>))
    ELSE ApplyOperator(token.value, st[Len(st) - 1], st[Len(st)], eq,
                       SubSeq(st, 1, Len(st) - 2))

\* mutant: a name that is not known leaves its argument as it is
ApplyFunction_Identity(name, a, st) ==
    IF name = <<"_">> THEN Eval(Append(st, Neg(a)), NoError)
    ELSE IF name = <<"s", "i", "n">> THEN Eval(Append(st, Sin(a)), NoError)
    ELSE IF name = <<"c", "o", "s">> THEN Eval(Append(st, Cos(a)), NoError)
    ELSE IF name = <<"t", "a", "n">> THEN Eval(Append(st, Tan(a)), NoError)
    ELSE IF name = <<"s", "q", "r", "t">> THEN Eval(Append(st, Sqrt(a)), NoError)
    ELSE Eval(Append(st, a), NoError)

\* the Function case after a is popped from st
ApplyFunction(name, a, st) ==
    IF name = <<"_">> THEN Eval(Append(st, Neg(a)), NoError)
    ELSE IF name = <<"s", "i", "n">> THEN Eval(Append(st, Sin(a)), NoError)
    ELSE IF name = <<"c", "o", "s">> THEN Eval(Append(st, Cos(a)), NoError)
    ELSE IF name = <<"t", "a", "n">> THEN Eval(Append(st, Tan(a)), NoError)
    ELSE IF name = <<"s", "q", "r", "t">> THEN Eval(Append(st, Sqrt(a)), NoError)
    ELSE Eval(st, Error("Unknown function: ", name))

FunctionToken(token, st) ==
    IF st = <<>> THEN Eval(st, Error("Invalid function call", <<>>))
    ELSE ApplyFunction(token.value, Back(st), PopBack(st))

NumberToken(token, st) ==
    IF StodThrows(token.value) THEN Eval(st, Error("stod", <<>>))
    ELSE Eval(Append(st, stod(token.value)), NoError)

\* one iteration of the for loop over rpn; eq is the outcome of b == 0
SolveToken(token, st, eq) ==
    IF token.type = "Number" THEN NumberToken(token, st)
    ELSE IF token.type = "Operator" THEN OperatorToken(token, st, eq)
    ELSE IF token.type = "Function" THEN FunctionToken(token, st)
    ELSE Eval(st, NoError)

\* mutant: only the empty stack is refused
FinalThrows_OnlyEmpty(st) == Len(st) = 0

\* whether the check after the for loop throws
FinalThrows(st) == Len(st) # 1

---------------------------------------------------------------------------
(* The expression texts *)

Lexemes == {<<"0">>, <<"2">>, <<"+">>, <<"-">>, <<"/">>, <<"^">>, <<"%">>,
            <<"(">>, <<")">>, <<" ">>, <<".">>, <<"s", "i", "n">>, <<"f", "o", "o">>}

\* the concatenation of a sequence of texts
RECURSIVE Flatten(_)
Flatten(ls) == IF ls = <<>> THEN <<>> ELSE Head(ls) \o Flatten(Tail(ls))

\* the well-formed infix expressions of integer literals, binary operators
\* and parentheses
ArithLiterals == {<<"0">>, <<"2">>, <<"3">>, <<"1", "2">>}

ArithOperators == {"+", "-", "*", "/", "^"}

\* those of exactly n characters, byLen[k] being those of k < n characters
ArithOfLen(n, byLen) ==
    {l \in ArithLiterals : Len(l) = n}
    \cup (IF n < 3 THEN {}
          ELSE {<<"(">> \o e \o <<")">> : e \in byLen[n - 2]})
    \cup UNION {{l \o <<o>> \o r : l \in byLen[k], r \in byLen[n - 1 - k]} :
                   k \in 1..(n - 2), o \in ArithOperators}

\* byLen extended up to MaxLen characters
RECURSIVE ArithUpTo(_)
ArithUpTo(n) ==
    IF n = 0 THEN <<>>
    ELSE LET byLen == ArithUpTo(n - 1) IN Append(byLen, ArithOfLen(n, byLen))

ArithTexts == ArithUpTo(MaxLen)

Expressions == UNION {ArithTexts[n] : n \in 1..MaxLen}

---------------------------------------------------------------------------
(* Calculator::evaluate *)

Start(text) ==
    /\ expr = text
    /\ pc = "tokenize"
    /\ i = 1
    /\ tokens = <<>>
    /\ output = <<>>
    /\ operators = <<>>
    /\ ti = 1
    /\ rpn = <<>>
    /\ ri = 1
    /\ stack = <<>>
    /\ result = <<>>
    /\ err = NoError

\* evaluate called on a text of up to MaxLexemes lexemes
Init == \E n \in 0..MaxLexemes : \E ls \in [1..n -> Lexemes] : Start(Flatten(ls))

\* one iteration of tokenize's for loop
TokenizeStep ==
    /\ pc = "tokenize"
    /\ i <= Len(expr)
    /\ LET r == TokenizeAt(expr, i, tokens)
       IN  /\ tokens' = r.tokens
           /\ i' = r.next
    /\ UNCHANGED <<expr, pc, output, operators, ti, rpn, ri, stack, result, err>>

\* tokenize returns, shuntingYard starts
TokenizeReturn ==
    /\ pc = "tokenize"
    /\ i > Len(expr)
    /\ pc' = "shuntingYard"
    /\ UNCHANGED <<expr, i, tokens, output, operators, ti, rpn, ri, stack, result, err>>

\* one iteration of shuntingYard's for loop; a throw ends evaluate
YardStep ==
    /\ pc = "shuntingYard"
    /\ ti <= Len(tokens)
    /\ LET r == YardToken(tokens[ti], output, operators)
       IN  /\ output' = r.output
           /\ operators' = r.operators
           /\ err' = r.err
           /\ pc' = IF r.err = NoError THEN pc ELSE "done"
           /\ ti' = IF r.err = NoError THEN ti + 1 ELSE ti
    /\ UNCHANGED <<expr, i, tokens, rpn, ri, stack, result>>

\* the final flush; shuntingYard returns and solveRPN starts, or it throws
YardReturn ==
    /\ pc = "shuntingYard"
    /\ ti > Len(tokens)
    /\ LET r == FinalFlush(output, operators)
       IN  /\ output' = r.output
           /\ operators' = r.operators
           /\ err' = r.err
           /\ pc' = IF r.err = NoError THEN "solveRPN" ELSE "done"
           /\ rpn' = IF r.err = NoError THEN r.output ELSE rpn
    /\ UNCHANGED <<expr, i, tokens, ti, ri, stack, result>>

\* one iteration of solveRPN's for loop; a throw ends evaluate
SolveStep ==
    /\ pc = "solveRPN"
    /\ ri <= Len(rpn)
    /\ \E eq \in (IF Len(stack) >= 1 THEN EqualsZero(Back(stack)) ELSE {FALSE}) :
         LET r == SolveToken(rpn[ri], stack, eq)
         IN  /\ stack' = r.stack
             /\ err' = r.err
             /\ pc' = IF r.err = NoError THEN pc ELSE "done"
             /\ ri' = IF r.err = NoError THEN ri + 1 ELSE ri
    /\ UNCHANGED <<expr, i, tokens, output, operators, ti, rpn, result>>

\* the check after the loop; solveRPN and evaluate return, or it throws
SolveReturn ==
    /\ pc = "solveRPN"
    /\ ri > Len(rpn)
    /\ IF FinalThrows(stack)
       THEN /\ err' = Error("Invalid expression", <<>>)
            /\ result' = result
       ELSE /\ err' = err
            /\ result' = <<Back(stack)>>
    /\ pc' = "done"
    /\ UNCHANGED <<expr, i, tokens, output, operators, ti, rpn, ri, stack>>

Next ==
    \/ TokenizeStep
    \/ TokenizeReturn
    \/ YardStep
    \/ YardReturn
    \/ SolveStep
    \/ SolveReturn

Spec == Init /\ [][Next]_vars

\* evaluate called on the well-formed arithmetic expressions only
ArithInit == \E text \in Expressions : Start(text)

SpecArith == ArithInit /\ [][Next]_vars

---------------------------------------------------------------------------
(* The reference evaluator: recursive descent over the characters with     *)
(*   Sum ::= Product { (+|-) Product }     left to right                   *)
(*   Product ::= Power { ( * | / ) Power } left to right                   *)
(*   Power ::= Atom [ ^ Power ]            right to left                   *)
(*   Atom ::= digits | ( Sum )                                             *)
(* A result is the value v, the index p after the part read, and e: ""     *)
(* for a value, "Division by zero", or "undetermined" when a divisor is an *)
(* opaque double.                                                          *)

Ref(v, p, e) == [v |-> v, p |-> p, e |-> e]

RefError(e1, e2) ==
    IF e1 = "undetermined" \/ e2 = "undetermined" THEN "undetermined"
    ELSE IF e1 # "" THEN e1 ELSE e2

RefApply(o, l, r) ==
    LET e == RefError(l.e, r.e) IN
    IF e # "" THEN Ref(l.v, r.p, e)
    ELSE IF o = "+" THEN Ref(Add(l.v, r.v), r.p, "")
    ELSE IF o = "-" THEN Ref(Sub(l.v, r.v), r.p, "")
    ELSE IF o = "*" THEN Ref(Mul(l.v, r.v), r.p, "")
    ELSE IF o = "^" THEN Ref(Pow(l.v, r.v), r.p, "")
    ELSE IF ~IsExact(r.v) THEN Ref(l.v, r.p, "undetermined")
    ELSE IF r.v.n = 0 THEN Ref(l.v, r.p, "Division by zero")
    ELSE Ref(Div(l.v, r.v), r.p, "")

RECURSIVE RefSum(_, _), RefSumTail(_, _), RefProduct(_, _), RefProductTail(_, _),
          RefPower(_, _), RefAtom(_, _)

RefAtom(s, p) ==
    IF s[p] = "("
    THEN LET r == RefSum(s, p + 1) IN Ref(r.v, r.p + 1, r.e)
    ELSE LET e == DigitsEnd(s, p)
         IN  Ref(Rat(DigitsValue(SubSeq(s, p, e - 1), 1, 0), 1), e, "")

RefPower(s, p) ==
    LET l == RefAtom(s, p) IN
    IF l.p <= Len(s) /\ s[l.p] = "^"
    THEN RefApply("^", l, RefPower(s, l.p + 1))
    ELSE l

RefProductTail(s, l) ==
    IF l.p <= Len(s) /\ s[l.p] \in {"*", "/"}
    THEN RefProductTail(s, RefApply(s[l.p], l, RefPower(s, l.p + 1)))
    ELSE l

RefProduct(s, p) == RefProductTail(s, RefPower(s, p))

RefSumTail(s, l) ==
    IF l.p <= Len(s) /\ s[l.p] \in {"+", "-"}
    THEN RefSumTail(s, RefApply(s[l.p], l, RefProduct(s, l.p + 1)))
    ELSE l

RefSum(s, p) == RefSumTail(s, RefProduct(s, p))

Reference(s) == RefSum(s, 1)

Contains(s, c) == \E k \in 1..Len(s) : s[k] = c

\* evaluate has ended with what the reference evaluator gives for expr
AgreesWithReference ==
    LET r == Reference(expr) IN
    /\ r.p = Len(expr) + 1
    /\ r.e = "" => err = NoError /\ result = <<r.v>>
    /\ r.e = "Division by zero" =>
           err = Error("Division by zero", <<>>) /\ result = <<>>

(* C1: for every well-formed expression of integer literals, + - * / and   *)
(* parentheses, evaluate returns the value the reference evaluator gives   *)
(* where * and / bind tighter than + and -, equal precedence associates    *)
(* left to right and parentheses group, and fails with "Division by zero"  *)
(* where the reference evaluator divides by zero.                          *)
C1_EvaluateMatchesReference ==
    (pc = "done" /\ ~Contains(expr, "^")) => AgreesWithReference

\* 2+3*2 has evaluated to 8 and 3-2-2 would be -1: here the first
C1_Witness ==
    /\ pc = "done"
    /\ expr = <<"2", "+", "3", "*", "2">>
    /\ result = <<Rat(8, 1)>>

LiteralValue(l) == Rat(DigitsValue(l, 1, 0), 1)

\* the operators of one precedence
PrecedenceClasses == {{<<"+">>, <<"-">>}, {<<"*">>, <<"/">>, <<"%">>}, {<<"^">>}}

SamePrecedence(x, y) == \E c \in PrecedenceClasses : x \in c /\ y \in c

(* C2: ^ is right-associative and binds tighter than * / + -: a^b^c of     *)
(* literals becomes the postfix a b c ^ ^ and evaluates to a^(b^c), every  *)
(* expression with ^ evaluates as the reference grammar says, and on the   *)
(* operator stack an operator lies above one of its own precedence, with   *)
(* only operators between them, only when it is ^ (any other incoming      *)
(* operator has popped it first).                                          *)
C2_PowerRightAssociative ==
    /\ (pc = "done" /\ Contains(expr, "^")) => AgreesWithReference
    /\ \A a, b, c \in ArithLiterals :
          (expr = a \o <<"^">> \o b \o <<"^">> \o c /\ pc \in {"solveRPN", "done"}) =>
             /\ rpn = <<Token("Number", a), Token("Number", b), Token("Number", c),
                        Token("Operator", <<"^">>), Token("Operator", <<"^">>)>>
             /\ pc = "done" =>
                   result = <<Pow(LiteralValue(a), Pow(LiteralValue(b), LiteralValue(c)))>>
    /\ \A k, m \in 1..Len(operators) :
          (/\ k < m
           /\ \A j \in k..m : operators[j].type = "Operator"
           /\ SamePrecedence(operators[k].value, operators[m].value))
             => operators[m].value = <<"^">>

\* 2^3^2 has evaluated to 512
C2_Witness ==
    /\ pc = "done"
    /\ expr = <<"2", "^", "3", "^", "2">>
    /\ rpn[4].value = <<"^">> /\ rpn[5].value = <<"^">>
    /\ result = <<Rat(512, 1)>>

---------------------------------------------------------------------------

\* tokenize has just run one iteration that read the character c
Tokenized(c) == pc = "tokenize" /\ i <= Len(expr) /\ expr[i] = c /\ i' > i

(* C3: a '-' is emitted as the Function "_" exactly when no token has been *)
(* emitted yet or the last emitted token is a LeftParen or an Operator,    *)
(* and as the Operator "-" otherwise (after a Number, a RightParen, a      *)
(* Function); no iteration of tokenize alters a token emitted earlier.     *)
C3_UnaryMinusLooksBackOneToken ==
    [][/\ Tokenized("-") =>
             /\ Len(tokens') = Len(tokens) + 1
             /\ Back(tokens') =
                  IF tokens = <<>> \/ Back(tokens).type \in {"LeftParen", "Operator"}
                  THEN Token("Function", <<"_">>)
                  ELSE Token("Operator", <<"-">>)
             /\ (tokens # <<>> /\ Back(tokens).type \in {"Number", "RightParen", "Function"})
                   => Back(tokens').type = "Operator"
       /\ pc = "tokenize" =>
             /\ Len(tokens') >= Len(tokens)
             /\ SubSeq(tokens', 1, Len(tokens)) = tokens]_vars

\* sin-/- : a binary '-' after a Function, a unary '-' after an Operator
C3_Witness ==
    /\ pc = "shuntingYard"
    /\ \E k \in 2..Len(tokens) :
          tokens[k] = Token("Function", <<"_">>) /\ tokens[k - 1].type = "Operator"
    /\ \E k \in 2..Len(tokens) :
          tokens[k] = Token("Operator", <<"-">>) /\ tokens[k - 1].type = "Function"

---------------------------------------------------------------------------

Count(s, type) == Cardinality({k \in 1..Len(s) : s[k].type = type})

\* some prefix has more RightParen than LeftParen, or the whole sequence
\* more LeftParen than RightParen
Unbalanced(s) ==
    \/ \E k \in 1..Len(s) :
          Count(SubSeq(s, 1, k), "RightParen") > Count(SubSeq(s, 1, k), "LeftParen")
    \/ Count(s, "LeftParen") > Count(s, "RightParen")

(* C4: shuntingYard throws "Mismatched parentheses" if and only if the     *)
(* parentheses of the tokens do not balance; for balanced tokens it        *)
(* returns its output.                                                     *)
C4_MismatchIffUnbalanced ==
    /\ pc = "solveRPN" => ~Unbalanced(tokens) /\ err = NoError
    /\ pc = "done" => (err = Error("Mismatched parentheses", <<>>) <=> Unbalanced(tokens))
    /\ err = Error("Mismatched parentheses", <<>>) => pc = "done" /\ result = <<>>

\* shuntingYard has returned for balanced tokens with parentheses, and has
\* thrown before: this state is the return
C4_Witness ==
    /\ pc = "solveRPN"
    /\ Count(tokens, "LeftParen") = 2
    /\ Count(tokens, "RightParen") = 2

---------------------------------------------------------------------------

(* C5: an expression whose first or last token is a binary Operator never  *)
(* evaluates to a number.                                                  *)
C5_LeadingOrTrailingOperatorFails ==
    (/\ pc = "done"
     /\ tokens # <<>>
     /\ (tokens[1].type = "Operator" \/ Back(tokens).type = "Operator"))
       => result = <<>>

---------------------------------------------------------------------------

\* solveRPN's for loop has consumed every token of rpn
LoopCompleted ==
    pc = "done" /\ err.what # "Mismatched parentheses" /\ ri > Len(rpn)

(* C6: solveRPN returns a value only when the stack holds exactly one      *)
(* value after all postfix tokens are consumed, and returns that value;    *)
(* with any other final stack size evaluate fails with "Invalid            *)
(* expression" and returns no number.                                      *)
C6_ExactlyOneValueRemains ==
    /\ result # <<>> => LoopCompleted /\ Len(stack) = 1 /\ result = stack /\ err = NoError
    /\ (LoopCompleted /\ Len(stack) # 1) =>
          err = Error("Invalid expression", <<>>) /\ result = <<>>

\* two operands are left over, as for "2 2"
C6_Witness ==
    /\ LoopCompleted
    /\ Len(stack) = 2
    /\ err = Error("Invalid expression", <<>>)

\* the empty input fails the same way
C6_WitnessEmpty ==
    LoopCompleted /\ expr = <<>> /\ err = Error("Invalid expression", <<>>)

---------------------------------------------------------------------------

\* solveRPN is about to apply the operator op to at least two values
Applies(op) ==
    /\ pc = "solveRPN"
    /\ ri <= Len(rpn)
    /\ rpn[ri] = Token("Operator", op)
    /\ Len(stack) >= 2

(* C7: when solveRPN applies / to at least two values and the divisor b    *)
(* (popped first) is 0, evaluate fails with "Division by zero", pushes no  *)
(* quotient and returns no number, for a literal and for a computed zero;  *)
(* when b is not 0 the quotient a / b is pushed, a the value pushed        *)
(* earlier.                                                                *)
C7_DivisionByZero ==
    [][Applies(<<"/">>) /\ vars' # vars =>
         LET b == stack[Len(stack)]
             a == stack[Len(stack) - 1]
             rest == SubSeq(stack, 1, Len(stack) - 2)
         IN  /\ IsZero(b) =>
                   /\ err' = Error("Division by zero", <<>>)
                   /\ pc' = "done"
                   /\ result' = <<>>
                   /\ stack' = rest
             /\ (IsExact(b) /\ b.n # 0) =>
                   /\ err' = NoError
                   /\ pc' = "solveRPN"
                   /\ stack' = Append(rest, Div(a, b))
                   /\ (IsExact(a) /\ IsExact(Back(stack'))) => Mul(Back(stack'), b) = a
             /\ err' # NoError =>
                   err' = Error("Division by zero", <<>>) /\ pc' = "done" /\ result' = <<>>]_vars

\* the division has thrown on a zero that was computed (the postfix token
\* before / is no Number), as for 2/-0
C7_Witness ==
    /\ pc = "done"
    /\ err = Error("Division by zero", <<>>)
    /\ rpn[ri] = Token("Operator", <<"/">>)
    /\ rpn[ri - 1].type # "Number"

---------------------------------------------------------------------------

KnownFunctions == {<<"s", "i", "n">>, <<"c", "o", "s">>, <<"t", "a", "n">>,
                   <<"s", "q", "r", "t">>}

\* the end of the maximal run of letters of s that starts at p
WordEnd(s, p) ==
    CHOOSE q \in p..Len(s) :
        /\ \A k \in p..q : isalpha(s[k])
        /\ (q = Len(s) \/ ~isalpha(s[q + 1]))

\* the maximal runs of letters of s
Words(s) ==
    {SubSeq(s, p, WordEnd(s, p)) :
        p \in {k \in 1..Len(s) : isalpha(s[k]) /\ (k = 1 \/ ~isalpha(s[k - 1]))}}

FunctionNames(s) == {s[k].value : k \in {j \in 1..Len(s) : s[j].type = "Function"}}

(* C8: an alphabetic word other than sin, cos, tan, sqrt passes tokenize   *)
(* and shuntingYard as a Function token; when solveRPN reaches it with a   *)
(* value on the stack it fails with "Unknown function: " and the word; no  *)
(* expression with such a word evaluates to a number.                      *)
C8_UnknownFunctionRejected ==
    /\ []((pc = "shuntingYard" /\ ti = 1) =>
             FunctionNames(tokens) \ {<<"_">>} = Words(expr))
    /\ []((pc = "solveRPN" /\ ri = 1) =>
             FunctionNames(rpn) \ {<<"_">>} = Words(expr))
    /\ [](result # <<>> => Words(expr) \subseteq KnownFunctions)
    /\ [][(/\ pc = "solveRPN"
           /\ ri <= Len(rpn)
           /\ rpn[ri].type = "Function"
           /\ rpn[ri].value \notin KnownFunctions \cup {<<"_">>}
           /\ stack # <<>>
           /\ vars' # vars)
             => /\ err' = Error("Unknown function: ", rpn[ri].value)
                /\ pc' = "done"
                /\ result' = <<>>]_vars

\* foo has been reached with a value on the stack
C8_Witness ==
    /\ pc = "done"
    /\ err = Error("Unknown function: ", <<"f", "o", "o">>)
    /\ rpn[ri] = Token("Function", <<"f", "o", "o">>)

---------------------------------------------------------------------------

(* C9: every Operator token that solveRPN reaches with at least two values *)
(* and that raises no error leaves the stack one value shorter, whatever   *)
(* its character; a Function token that raises no error leaves the depth   *)
(* unchanged.                                                              *)
C9_OperatorPopsTwoPushesOne ==
    [][(pc = "solveRPN" /\ ri <= Len(rpn) /\ err' = NoError /\ vars' # vars) =>
          /\ (rpn[ri].type = "Operator" /\ Len(stack) >= 2) => Len(stack') = Len(stack) - 1
          /\ rpn[ri].type = "Function" => Len(stack') = Len(stack)]_vars

---------------------------------------------------------------------------

\* shuntingYard has just handled a token of this type
Handled(type) ==
    /\ pc = "shuntingYard"
    /\ ti <= Len(tokens)
    /\ tokens[ti].type = type
    /\ vars' # vars

\* shuntingYard has just run its final flush
Flushed == pc = "shuntingYard" /\ ti > Len(tokens) /\ vars' # vars

\* the operator stack has lost a Function
FunctionRemoved == Count(operators', "Function") < Count(operators, "Function")

(* C10 as stated: only a RightParen or the final flush removes a Function  *)
(* from the operator stack.                                                *)
C10_OnlyParenOrFlushRemovesFunction ==
    [][FunctionRemoved => Handled("RightParen") \/ Flushed]_vars

(* C10, amended: a Function leaves the operator stack only for the output, *)
(* moved there by a following Operator token, by a following RightParen or *)
(* by the final flush; a Number, Function or LeftParen token removes none. *)
C10_FunctionRemovedByOperatorParenOrFlush ==
    [][/\ FunctionRemoved =>
             /\ Handled("Operator") \/ Handled("RightParen") \/ Flushed
             /\ Count(output', "Function") - Count(output, "Function")
                   = Count(operators, "Function") - Count(operators', "Function")
       /\ (Handled("Number") \/ Handled("Function") \/ Handled("LeftParen")) =>
             /\ ~FunctionRemoved
             /\ SubSeq(operators', 1, Len(operators)) = operators]_vars

\* an Operator token has moved a Function to the output: sin 2 + ...
C10_Witness ==
    /\ pc = "shuntingYard"
    /\ ti > 1
    /\ tokens[ti - 1].type = "Operator"
    /\ Count(tokens, "RightParen") = 0
    /\ output # <<>>
    /\ Back(output).type = "Function"
    /\ Back(output).value = <<"s", "i", "n">>

====
